---- MODULE Spec2Model ----
(***************************************************************************)
(* autoortho: the virtual-filesystem dispatch layer (class AutoOrtho) and  *)
(* the reference-counted tile cache behind it (class TileCacher), as a     *)
(* state machine.  Strings of the program (paths, cache keys) are          *)
(* sequences of one-character strings, so that the regular expression,     *)
(* int() and the f-string of the cache key are computed, not assumed.      *)
(***************************************************************************)
EXTENDS Integers, Sequences, FiniteSets, TLC

(***************************************************************************)
(* Characters and the conversions between digit strings and integers.      *)
(***************************************************************************)
Digits == {"0", "1", "2", "3", "4", "5", "6", "7", "8", "9"}

IsDigit(c) == c \in Digits

DigitVal(c) ==
    CASE c = "0" -> 0 [] c = "1" -> 1 [] c = "2" -> 2 [] c = "3" -> 3
      [] c = "4" -> 4 [] c = "5" -> 5 [] c = "6" -> 6 [] c = "7" -> 7
      [] c = "8" -> 8 [] c = "9" -> 9

DigitChr(d) ==
    CASE d = 0 -> "0" [] d = 1 -> "1" [] d = 2 -> "2" [] d = 3 -> "3"
      [] d = 4 -> "4" [] d = 5 -> "5" [] d = 6 -> "6" [] d = 7 -> "7"
      [] d = 8 -> "8" [] d = 9 -> "9"

\* int(s) of a non-empty string of decimal digits (leading zeros are dropped).
RECURSIVE int(_)
int(s) ==
    IF s = << >> THEN 0
    ELSE 10 * int(SubSeq(s, 1, Len(s) - 1)) + DigitVal(s[Len(s)])

\* str(n) of a non-negative integer, as the f-string formats it.
RECURSIVE str(_)
str(n) ==
    IF n < 10 THEN << DigitChr(n) >>
    ELSE Append(str(n \div 10), DigitChr(n % 10))

(***************************************************************************)
(* dds_re: any characters, a slash, digits (row), a separator, digits      *)
(* (column), a separator, a run of non-digits not starting with ZL (map     *)
(* type), digits (zoom), any one character, then d d s.  It is              *)
(* used with .match(path): anchored at the start of the path, not at its   *)
(* end; the dot before dds is unescaped and matches any character but a    *)
(* newline.                                                                *)
(* Each quantifier is greedy, so the match the engine returns is the one   *)
(* with the longest choice at each quantifier in turn, among the choices   *)
(* that let the rest of the pattern match.                                 *)
(***************************************************************************)
Max(S) == CHOOSE x \in S : \A y \in S : y <= x

IsSep(c) == c \in {"-", "_"}

\* Length of the longest run of digits (dig) or non-digits (~dig) of p from i.
RECURSIVE Run(_, _, _)
Run(p, i, dig) ==
    IF i > Len(p) \/ IsDigit(p[i]) # dig THEN 0 ELSE 1 + Run(p, i + 1, dig)

\* zoom digits, any character, dds from position i: the lengths of the zoom group.
ZoomLens(p, i) ==
    { n \in 1..Run(p, i, TRUE) :
        /\ i + n + 3 <= Len(p)
        /\ p[i + n] # "\n"
        /\ p[i + n + 1] = "d" /\ p[i + n + 2] = "d" /\ p[i + n + 3] = "s" }

\* the negative lookahead at position i: the next two characters are not Z, L.
NotZL(p, i) == ~(i + 1 <= Len(p) /\ p[i] = "Z" /\ p[i + 1] = "L")

\* the map-type group and what follows, from position i: the lengths of the group.
TypeLens(p, i) ==
    IF ~NotZL(p, i) THEN {}
    ELSE { n \in 0..Run(p, i, FALSE) : ZoomLens(p, i + n) # {} }

\* column digits, a separator and the map-type group from position i: the
\* lengths of the column group.
ColLens(p, i) ==
    { n \in 1..Run(p, i, TRUE) :
        /\ i + n <= Len(p)
        /\ IsSep(p[i + n])
        /\ TypeLens(p, i + n + 1) # {} }

\* row digits, a separator and the column group from position i: the lengths
\* of the row group.
RowLens(p, i) ==
    { n \in 1..Run(p, i, TRUE) :
        /\ i + n <= Len(p)
        /\ IsSep(p[i + n])
        /\ ColLens(p, i + n + 1) # {} }

\* the leading any-characters and slash: the positions of a slash after which the rest of the pattern matches.
SlashPos(p) ==
    { s \in 1..Len(p) :
        /\ p[s] = "/"
        /\ \A k \in 1..(s - 1) : p[k] # "\n"
        /\ RowLens(p, s + 1) # {} }

NoMatch == [ok |-> FALSE]

\* dds_re.match(path): NoMatch, or the four groups of the match.
dds_re(path) ==
    IF SlashPos(path) = {} THEN NoMatch
    ELSE LET s  == Max(SlashPos(path))
             r0 == s + 1
             rn == Max(RowLens(path, r0))
             c0 == r0 + rn + 1
             cn == Max(ColLens(path, c0))
             t0 == c0 + cn + 1
             tn == Max(TypeLens(path, t0))
             z0 == t0 + tn
             zn == Max(ZoomLens(path, z0))
         IN [ok      |-> TRUE,
             row     |-> SubSeq(path, r0, r0 + rn - 1),
             col     |-> SubSeq(path, c0, c0 + cn - 1),
             maptype |-> SubSeq(path, t0, t0 + tn - 1),
             zoom    |-> SubSeq(path, z0, z0 + zn - 1)]

(***************************************************************************)
(* Bounds of the model and constants of the program.                       *)
(***************************************************************************)
NumThreads == 2         \* concurrent requests of the host filesystem service
MaxOps == 2             \* requests each of them issues
ContentLen == 3         \* bytes of a tile's generated content

CacheWatermark == 90    \* len(self.tiles) >= 90
BatchSize == 20         \* list(self.tiles.keys())[:20]
memlimit == 2 * 1024 * 1024   \* pow(2,30) * 2 bytes, counted in KiB

Threads == 1..NumThreads

None == 0               \* Python's None, where a handle is expected
Unlocked == "unlocked"  \* tile_lock when no thread holds it

\* tile_lock when worker t holds it beyond one step.
Holder(t) == "worker" \o ToString(t)

\* Paths the requests of the concurrent specifications name.
PathA == << "/", "1", "_", "2", "_", "B", "3", ".", "d", "d", "s" >>
PathB == << "/", "1", "_", "2", "_", "C", "3", ".", "d", "d", "s" >>
PathR == << "/", "a", ".", "t", "x", "t" >>

\* Two paths that differ in their map type only, of a tile not yet cached.
PathE == << "/", "4", "_", "2", "_", "B", "3", ".", "d", "d", "s" >>
PathF == << "/", "4", "_", "2", "_", "C", "3", ".", "d", "d", "s" >>

\* Resident memory as psutil may report it, in pages: at the limit, or above it.
MemSamples == {memlimit, memlimit + 1}

(***************************************************************************)
(* State.                                                                  *)
(*   tiles      TileCacher.tiles, a dict: the sequence of its items in     *)
(*              insertion order, each [key, h] with h a handle             *)
(*   handles    every getortho.Tile object constructed so far: its key,    *)
(*              its refs attribute and whether close() was called on it    *)
(*   tile_lock  TileCacher.tile_lock: Unlocked, or who holds it            *)
(*   misses, hits   the counters of TileCacher                             *)
(*   th         the requests in progress: th[t] is the frame of the        *)
(*              request worker t executes (pc, arguments, locals), with    *)
(*              the file the application holds open through it (mine) and  *)
(*              the bytes it has read from that file so far (buf)          *)
(*   cl         the frame of TileCacher.clean                              *)
(*   exists     the full paths of the real files of the host               *)
(*   maptype_override   TileCacher.maptype_override, a map type; the empty *)
(*              one when none is configured                                *)
(***************************************************************************)
VARIABLES tiles, handles, tile_lock, misses, hits, th, cl, exists, maptype_override

vars == << tiles, handles, tile_lock, misses, hits, th, cl, exists, maptype_override >>

\* What no request and no pass of clean changes.
env == << exists, maptype_override >>

cache == << tiles, handles, tile_lock, misses, hits >>

(***************************************************************************)
(* The dict TileCacher.tiles.                                              *)
(***************************************************************************)
Keys(d) == { d[i].key : i \in 1..Len(d) }

\* d.get(k): the handle stored under k, or None.
Get(d, k) ==
    IF k \in Keys(d) THEN d[CHOOSE i \in 1..Len(d) : d[i].key = k].h ELSE None

\* d[k] = h: a new key goes last, an existing key keeps its place.
Put(d, k, h) ==
    IF k \in Keys(d)
    THEN [i \in 1..Len(d) |-> IF d[i].key = k THEN [key |-> k, h |-> h] ELSE d[i]]
    ELSE Append(d, [key |-> k, h |-> h])

\* d.pop(k)
RECURSIVE Pop(_, _)
Pop(d, k) ==
    IF d = << >> THEN << >>
    ELSE IF Head(d).key = k THEN Tail(d)
    ELSE << Head(d) >> \o Pop(Tail(d), k)

\* list(d.keys())[:n]
FirstKeys(d, n) ==
    [i \in 1..(IF Len(d) < n THEN Len(d) ELSE n) |-> d[i].key]

(***************************************************************************)
(* TileCacher._get_tile: the cache key, and the provider's constructor.    *)
(***************************************************************************)
\* A key with no separator on either side of the map type.
idx_unseparated(row, col, map_type, zoom) ==
    str(row) \o << "_" >> \o str(col) \o map_type \o str(zoom)

\* idx = f"{row}_{col}_{map_type}_{zoom}"
idx(row, col, map_type, zoom) ==
    str(row) \o << "_" >> \o str(col) \o << "_" >> \o map_type \o << "_" >> \o str(zoom)

\* maptype_override when none is configured: None, or the empty string of
\* the configuration file; both are false in the test of _get_tile.
NoOverride == << >>

\* if self.maptype_override: map_type = self.maptype_override
map_type(f) ==
    IF maptype_override # NoOverride THEN maptype_override ELSE f.maptype

\* The key _get_tile builds from the arguments in the frame f of its caller.
KeyOf(f) == idx(f.row, f.col, map_type(f), f.zoom)

\* getortho.Tile(col, row, map_type, zoom, cache_dir): a fresh handle, not
\* referenced and not closed.
Tile(k) == [key |-> k, refs |-> 0, closed |-> FALSE]

\* The content a provider generates for a key: ContentLen bytes that differ
\* from position to position and from key to key.
Content(k) == [i \in 1..ContentLen |-> << k, i >>]

\* Tile.read_dds_bytes(offset, length): that slice of the content, short at
\* the end of the content.
read_dds_bytes(k, offset, length) ==
    SubSeq(Content(k), offset + 1,
           IF offset + length < ContentLen THEN offset + length ELSE ContentLen)

(***************************************************************************)
(* Frames.  A worker executes one request at a time; the requests of one   *)
(* worker are those the application makes through one file handle, so      *)
(* they follow each other, while those of different workers interleave.    *)
(***************************************************************************)
NoPath == << >>

IdleFrame ==
    [pc |-> "idle", op |-> "none", path |-> NoPath, offset |-> 0, length |-> 0,
     row |-> 0, col |-> 0, maptype |-> << >>, zoom |-> 0,
     tile |-> None, tmp |-> 0, mine |-> NoPath, ops |-> 0, ret |-> << >>,
     buf |-> {}, held |-> None]

\* What a request returns to the host filesystem service.
Ok(v) == << "ok", v >>
Err(e) == << "err", e >>

\* The frame of a worker once its request has returned r; the application
\* then holds the file `mine` open through this worker.  The arguments of
\* the request stay in the frame beside what it returned; `held` is the
\* handle on which the open of that file stored its count, until release is
\* called.
Done(f, r, mine) ==
    [f EXCEPT !.pc = "idle", !.tile = None, !.tmp = 0, !.ret = r, !.mine = mine]

(***************************************************************************)
(* AutoOrtho._full_path, with os.path.join and os.path.abspath of a POSIX  *)
(* host.  Paths are strings; root is absolute and normalised.              *)
(***************************************************************************)
root == << "/", "r" >>

\* s.split(sep), from position i on, cur being the piece begun.
RECURSIVE split(_, _, _)
split(s, i, cur) ==
    IF i > Len(s) THEN << cur >>
    ELSE IF s[i] = "/" THEN << cur >> \o split(s, i + 1, << >>)
    ELSE split(s, i + 1, Append(cur, s[i]))

\* The loop of normpath over the components comps, new_comps collected so
\* far, for a path that begins with a slash.
RECURSIVE new_comps(_, _)
new_comps(comps, new) ==
    IF comps = << >> THEN new
    ELSE LET comp == Head(comps)
         IN IF comp = << >> \/ comp = << "." >> THEN new_comps(Tail(comps), new)
            ELSE IF comp # << ".", "." >>
                    \/ (new # << >> /\ new[Len(new)] = << ".", "." >>)
                 THEN new_comps(Tail(comps), Append(new, comp))
            ELSE IF new # << >>
                 THEN new_comps(Tail(comps), SubSeq(new, 1, Len(new) - 1))
            ELSE new_comps(Tail(comps), new)

\* sep.join(comps)
RECURSIVE join(_)
join(comps) ==
    IF comps = << >> THEN << >>
    ELSE IF Len(comps) = 1 THEN comps[1]
    ELSE comps[1] \o << "/" >> \o join(Tail(comps))

\* The slashes normpath keeps in front: two for exactly two, else one.
initial_slashes(path) ==
    IF Len(path) >= 2 /\ path[2] = "/" /\ ~(Len(path) >= 3 /\ path[3] = "/")
    THEN << "/", "/" >> ELSE << "/" >>

\* os.path.abspath(path) for a path that begins with a slash: normpath.
abspath(path) == initial_slashes(path) \o join(new_comps(split(path, 1, << >>), << >>))

\* os.path.join(a, b) for a that does not end with a slash.
os_path_join(a, b) ==
    IF b # << >> /\ b[1] = "/" THEN b ELSE a \o << "/" >> \o b

_full_path(partial) ==
    LET stripped == IF partial # << >> /\ partial[1] = "/" THEN Tail(partial)
                    ELSE partial
    IN abspath(os_path_join(root, stripped))

(***************************************************************************)
(* AutoOrtho.open, read and release on a path: the classification, and     *)
(* for a passthrough path the host call on the real file.                  *)
(***************************************************************************)
\* os.open(full_path, flags): a descriptor of the real file, or ENOENT.
os_open(path) == IF _full_path(path) \in exists THEN Ok("fd") ELSE Err("ENOENT")

\* os.lseek(fh, offset); os.read(fh, length) on a descriptor os.open gave.
os_read(path, offset, length) == Ok(<< "real", path, offset, length >>)

\* os.close(fh)
os_close(path) == Ok(None)

\* The frame of a request that enters method op with these arguments.
Enter(f, op, path, offset, length) ==
    [f EXCEPT !.op = op, !.path = path, !.offset = offset, !.length = length,
              !.row = 0, !.col = 0, !.maptype = << >>, !.zoom = 0,
              !.ops = @ + 1, !.ret = << >>,
              !.held = IF op = "release" THEN None ELSE @]

\* row, col, maptype, zoom = dds_m.groups(); row = int(row); col = int(col);
\* zoom = int(zoom); then the call of self.tc._get_tile
Parsed(f, dds_m) ==
    [f EXCEPT !.row = int(dds_m.row), !.col = int(dds_m.col),
              !.maptype = dds_m.maptype, !.zoom = int(dds_m.zoom), !.pc = "get"]

\* The host call open, read or release makes on a passthrough path.
Passthrough(f) ==
    CASE f.op = "open" ->
           Done(f, os_open(f.path),
                IF _full_path(f.path) \in exists THEN f.path ELSE f.mine)
      [] f.op = "read" ->
           Done(f, os_read(f.path, f.offset, f.length), f.mine)
      [] f.op = "release" ->
           Done(f, os_close(f.path), NoPath)

\* A request enters open, read or release; dds_m decides where it goes.
Begin(t, op, path, offset, length) ==
    /\ th[t].pc = "idle"
    /\ LET f == Enter(th[t], op, path, offset, length)
           dds_m == dds_re(path)
       IN th' = [th EXCEPT ![t] = IF dds_m.ok THEN Parsed(f, dds_m)
                                  ELSE Passthrough(f)]
    /\ UNCHANGED << cache, cl, env >>

(***************************************************************************)
(* TileCacher._get_tile, step by step.  Each step holds at most one access *)
(* to shared state; the two with-blocks are single steps, taken when the   *)
(* lock is free.                                                           *)
(***************************************************************************)
\* with self.tile_lock: tile = self.tiles.get(idx); then the test of tile.
GetLookup(t) ==
    /\ th[t].pc = "get"
    /\ tile_lock = Unlocked
    /\ LET h == Get(tiles, KeyOf(th[t]))
       IN th' = [th EXCEPT ![t].tile = h,
                           ![t].pc = IF h = None THEN "miss_load" ELSE "refs_test"]
    /\ UNCHANGED << cache, cl, env >>

\* self.misses += 1, the load
MissLoad(t) ==
    /\ th[t].pc = "miss_load"
    /\ th' = [th EXCEPT ![t].tmp = misses, ![t].pc = "miss_store"]
    /\ UNCHANGED << cache, cl, env >>

\* self.misses += 1, the store
MissStore(t) ==
    /\ th[t].pc = "miss_store"
    /\ misses' = th[t].tmp + 1
    /\ th' = [th EXCEPT ![t].tmp = 0, ![t].pc = "create"]
    /\ UNCHANGED << tiles, handles, tile_lock, hits, cl, env >>

\* Where _get_tile returns to.
AfterGet(op) ==
    CASE op = "open" -> "refs_load"
      [] op = "release" -> "refs_load"
      [] op = "read" -> "read_call"

\* with self.tile_lock: tile = getortho.Tile(...); self.tiles[idx] = tile
Create(t) ==
    /\ th[t].pc = "create"
    /\ tile_lock = Unlocked
    /\ LET k == KeyOf(th[t])
           h == Len(handles) + 1
       IN /\ handles' = Append(handles, Tile(k))
          /\ tiles' = Put(tiles, k, h)
          /\ th' = [th EXCEPT ![t].tile = h, ![t].pc = AfterGet(th[t].op)]
    /\ UNCHANGED << tile_lock, misses, hits, cl, env >>

\* A constructor failure after which the lock stays with the worker, as an
\* acquire and release written without a with block would leave it.
CreateFailLocked(t) ==
    /\ th[t].pc = "create"
    /\ tile_lock = Unlocked
    /\ tile_lock' = Holder(t)
    /\ th' = [th EXCEPT ![t] = Done(th[t], Err("TileError"), th[t].mine)]
    /\ UNCHANGED << tiles, handles, misses, hits, cl, env >>

\* with self.tile_lock: tile = getortho.Tile(...) raises: the with block
\* releases the lock and the exception leaves _get_tile and its caller.
CreateFail(t) ==
    /\ th[t].pc = "create"
    /\ tile_lock = Unlocked
    /\ th' = [th EXCEPT ![t] = Done(th[t], Err("TileError"), th[t].mine)]
    /\ UNCHANGED << cache, cl, env >>

\* elif tile.refs <= 0
RefsTest(t) ==
    /\ th[t].pc = "refs_test"
    /\ th' = [th EXCEPT ![t].pc = IF handles[th[t].tile].refs <= 0
                                  THEN "hit_load" ELSE AfterGet(th[t].op)]
    /\ UNCHANGED << cache, cl, env >>

\* self.hits += 1, the load
HitLoad(t) ==
    /\ th[t].pc = "hit_load"
    /\ th' = [th EXCEPT ![t].tmp = hits, ![t].pc = "hit_store"]
    /\ UNCHANGED << cache, cl, env >>

\* self.hits += 1, the store
HitStore(t) ==
    /\ th[t].pc = "hit_store"
    /\ hits' = th[t].tmp + 1
    /\ th' = [th EXCEPT ![t].tmp = 0, ![t].pc = AfterGet(th[t].op)]
    /\ UNCHANGED << tiles, handles, tile_lock, misses, cl, env >>

(***************************************************************************)
(* The rest of open, release and read on a virtual path.                   *)
(***************************************************************************)
\* t.refs += 1 and t.refs -= 1, the load
RefsLoad(t) ==
    /\ th[t].pc = "refs_load"
    /\ th' = [th EXCEPT ![t].tmp = handles[th[t].tile].refs, ![t].pc = "refs_store"]
    /\ UNCHANGED << cache, cl, env >>

\* The value release stores back into t.refs.
Decrement(refs) == refs - 1

\* t.refs += 1 and t.refs -= 1, the store; then return h (0) or return 0.
RefsStore(t) ==
    /\ th[t].pc = "refs_store"
    /\ LET f == th[t]
           v == IF f.op = "open" THEN f.tmp + 1 ELSE Decrement(f.tmp)
       IN /\ handles' = [handles EXCEPT ![f.tile].refs = v]
          /\ th' = [th EXCEPT ![t] =
                      IF f.op = "open"
                      THEN [Done(f, Ok(0), f.path) EXCEPT !.buf = {}, !.held = f.tile]
                      ELSE Done(f, Ok(0), NoPath)]
    /\ UNCHANGED << tiles, tile_lock, misses, hits, cl, env >>

\* What the application has gathered of a file once it has also read data
\* at offset: each byte at its position, as the tests reassemble them.
Gather(buf, path, offset, data) ==
    buf \cup { << path, offset + i, data[i] >> : i \in 1..Len(data) }

\* A read made inside a with self.tile_lock block.
ReadCallLocked(t) ==
    /\ th[t].pc = "read_call"
    /\ tile_lock = Unlocked
    /\ tile_lock' = Holder(t)
    /\ th' = [th EXCEPT ![t].pc = "reading"]
    /\ UNCHANGED << tiles, handles, misses, hits, cl, env >>

\* data = t.read_dds_bytes(offset, length): the call is made
ReadCall(t) ==
    /\ th[t].pc = "read_call"
    /\ th' = [th EXCEPT ![t].pc = "reading"]
    /\ UNCHANGED << cache, cl, env >>

\* A read that hands length and offset to the handle in the order of its own
\* parameters, read(self, path, length, offset, fh).
TileReadSwapped(f) == read_dds_bytes(handles[f.tile].key, f.length, f.offset)

\* t.read_dds_bytes(offset, length) on the handle t that _get_tile returned.
TileRead(f) == read_dds_bytes(handles[f.tile].key, f.offset, f.length)

\* data = t.read_dds_bytes(offset, length): the call returns; return data
ReadReturn(t) ==
    /\ th[t].pc = "reading"
    /\ LET f == th[t]
           data == TileRead(f)
       IN th' = [th EXCEPT ![t] =
                   [Done(f, Ok(data), f.mine)
                      EXCEPT !.buf = Gather(@, f.path, f.offset, data)]]
    /\ UNCHANGED << cache, cl, env >>

(***************************************************************************)
(* AutoOrtho.getattr, truncate, _flush and _write.  None of them touches   *)
(* the tile cache; each is one step.                                       *)
(***************************************************************************)
default_uid == 0
default_gid == 0

\* The attrs dict getattr builds for a path dds_re matches.  The times are
\* the floats of the source as (seconds, microseconds).
VirtualAttrs ==
    [st_atime   |-> << 1649857250, 382081 >>,
     st_ctime   |-> << 1649857251, 726115 >>,
     st_gid     |-> default_gid,
     st_uid     |-> default_uid,
     st_mode    |-> 33204,
     st_mtime   |-> << 1649857251, 726115 >>,
     st_nlink   |-> 1,
     st_size    |-> 22369744,
     st_blksize |-> 32768]

\* os.lstat(full_path): the attributes of the real file, or ENOENT.
os_lstat(path) ==
    IF _full_path(path) \in exists THEN Ok([lstat |-> _full_path(path)])
    ELSE Err("ENOENT")

\* The test the source keeps in a comment: the fixed record only for a
\* matching path that has no real file.
getattr_unless_exists(path) ==
    IF dds_re(path).ok /\ _full_path(path) \notin exists THEN Ok(VirtualAttrs)
    ELSE os_lstat(path)

\* What getattr(path) returns or raises.
getattr(path) ==
    IF dds_re(path).ok THEN Ok(VirtualAttrs) ELSE os_lstat(path)

\* What truncate(path, length) returns or raises: open(full_path, 'r+')
\* needs the real file, whatever the path is.
truncate(path) ==
    IF _full_path(path) \in exists THEN Ok(None) ELSE Err("ENOENT")

\* What _flush(path, fh) returns or raises; os.fsync needs a descriptor that
\* os.open gave for the real file.
flush(path) ==
    IF dds_re(path).ok THEN Ok(0)
    ELSE IF _full_path(path) \in exists THEN Ok(None) ELSE Err("EBADF")

\* What _write(path, buf, offset, fh) may return or raise: os.lseek and
\* os.write on fh.  For a virtual path fh is the 0 that open returned, the
\* standard input of the process, and the host decides.
write(path) ==
    IF dds_re(path).ok THEN {Ok("written"), Err("ESPIPE"), Err("EBADF")}
    ELSE IF _full_path(path) \in exists THEN {Ok("written")} ELSE {Err("EBADF")}

\* A request that is a single step returns r.
Answer(t, op, path, r) ==
    /\ th[t].pc = "idle"
    /\ th' = [th EXCEPT ![t] = Done(Enter(th[t], op, path, 0, 0), r, th[t].mine)]
    /\ UNCHANGED << cache, cl, env >>

\* A getattr that asks the cache for the handle of a matching path, as the
\* size of the generated content would require: a miss is counted.
GetattrThroughCache(t, path) ==
    /\ th[t].pc = "idle"
    /\ th' = [th EXCEPT ![t] =
                Done(Enter(th[t], "getattr", path, 0, 0), getattr(path), th[t].mine)]
    /\ misses' = IF dds_re(path).ok THEN misses + 1 ELSE misses
    /\ UNCHANGED << tiles, handles, tile_lock, hits, cl, env >>

Getattr(t, path) == Answer(t, "getattr", path, getattr(path))

\* The file e of the host lies in or below the directory d.
IsUnder(e, d) ==
    IF d = << "/" >> THEN Len(e) > 1
    ELSE Len(e) > Len(d) + 1 /\ SubSeq(e, 1, Len(d)) = d /\ e[Len(d) + 1] = "/"

\* os.path.isdir(full_path): the directories of the host are those that
\* hold its files.
os_path_isdir(full_path) == \E e \in exists : IsUnder(e, full_path)

\* os.listdir(full_path): the names in the directory, in no order.
os_listdir(full_path) ==
    { split(SubSeq(e, IF full_path = << "/" >> THEN 2 ELSE Len(full_path) + 2,
                   Len(e)), 1, << >>)[1] :
        e \in { x \in exists : IsUnder(x, full_path) } }

\* What readdir(path, fh) yields: the two dot entries, then the listing.
readdir(path) ==
    [dirents |-> << << "." >>, << ".", "." >> >>,
     extend  |-> IF os_path_isdir(_full_path(path))
                 THEN os_listdir(_full_path(path)) ELSE {}]

Readdir(t, path) == Answer(t, "readdir", path, Ok(readdir(path)))

Truncate(t, path) == Answer(t, "truncate", path, truncate(path))

Flush(t, path) == Answer(t, "flush", path, flush(path))

Write(t, path) == \E r \in write(path) : Answer(t, "write", path, r)

(***************************************************************************)
(* TileCacher.clean, the thread started by TileCacher.__init__.  The lock  *)
(* is held from the with statement to the end of the for loop; t.refs is   *)
(* read in one step and the pop and close are another, since open and      *)
(* release change refs without the lock.                                   *)
(***************************************************************************)
\* The frame of clean in time.sleep(15): cur_mem is assigned anew before it
\* is read again.
Asleep == [pc |-> "sleep", cur_mem |-> 0, batch |-> << >>, keys |-> << >>]

\* while True: cur_mem = process.memory_info().rss (after time.sleep(15))
CleanWake ==
    /\ cl.pc = "sleep"
    /\ \E m \in MemSamples : cl' = [cl EXCEPT !.pc = "test", !.cur_mem = m]
    /\ UNCHANGED << cache, th, env >>

\* The condition with or in the place of and.
OverEitherLimit(n, cur_mem) == n >= CacheWatermark \/ cur_mem > memlimit

\* The condition of the inner while loop.
OverLimit(n, cur_mem) == n >= CacheWatermark /\ cur_mem > memlimit

\* while len(self.tiles) >= 90 and cur_mem > memlimit; else on to the sleep
CleanTest ==
    /\ cl.pc = "test"
    /\ cl' = IF OverLimit(Len(tiles), cl.cur_mem)
             THEN [cl EXCEPT !.pc = "lock"]
             ELSE Asleep
    /\ UNCHANGED << cache, th, env >>

\* with self.tile_lock: for i in list(self.tiles.keys())[:20]
CleanLock ==
    /\ cl.pc = "lock"
    /\ tile_lock = Unlocked
    /\ tile_lock' = "clean"
    /\ cl' = [cl EXCEPT !.pc = "iter", !.batch = FirstKeys(tiles, BatchSize),
                        !.keys = FirstKeys(tiles, BatchSize)]
    /\ UNCHANGED << tiles, handles, misses, hits, th, env >>

\* The test that lets clean remove a handle.
Evictable(refs) == refs <= 0

\* t = self.tiles.get(i); if t.refs <= 0
CleanExamine ==
    /\ cl.pc = "iter"
    /\ cl.keys # << >>
    /\ LET t == Get(tiles, Head(cl.keys))
       IN cl' = IF Evictable(handles[t].refs)
                THEN [cl EXCEPT !.pc = "pop"]
                ELSE [cl EXCEPT !.keys = Tail(@)]
    /\ UNCHANGED << cache, th, env >>

\* t = self.tiles.pop(i); t.close()
CleanPop ==
    /\ cl.pc = "pop"
    /\ LET i == Head(cl.keys)
           t == Get(tiles, i)
       IN /\ tiles' = Pop(tiles, i)
          /\ handles' = [handles EXCEPT ![t].closed = TRUE]
    /\ cl' = [cl EXCEPT !.pc = "iter", !.keys = Tail(@)]
    /\ UNCHANGED << tile_lock, misses, hits, th, env >>

\* The end of the with block; cur_mem = process.memory_info().rss
CleanUnlock ==
    /\ cl.pc = "iter"
    /\ cl.keys = << >>
    /\ tile_lock' = Unlocked
    /\ \E m \in MemSamples :
          cl' = [cl EXCEPT !.pc = "test", !.cur_mem = m, !.batch = << >>]
    /\ UNCHANGED << tiles, handles, misses, hits, th, env >>

Clean == CleanWake \/ CleanTest \/ CleanLock \/ CleanExamine \/ CleanPop \/ CleanUnlock

(***************************************************************************)
(* Initial states: the mount has served the application for a while.  The  *)
(* tiles of `front` were opened and released first, then NumFillers other  *)
(* tiles; every one was a miss, none is referenced.                        *)
(***************************************************************************)
NumFillers == CacheWatermark - 1

\* The key of the i-th other tile: row 9 + i, column 0, map type B, zoom 3.
FillerKey(i) == idx(9 + i, 0, << "B" >>, 3)

\* The key of the i-th tile inserted before the model starts.
StartKey(front, i) ==
    IF i <= Len(front) THEN front[i] ELSE FillerKey(i - Len(front))

Started(front) ==
    /\ tiles = [i \in 1..(Len(front) + NumFillers) |->
                  [key |-> StartKey(front, i), h |-> i]]
    /\ handles = [i \in 1..(Len(front) + NumFillers) |-> Tile(StartKey(front, i))]
    /\ tile_lock = Unlocked
    /\ misses = Len(front) + NumFillers
    /\ hits = 0
    /\ th = [t \in Threads |-> IdleFrame]
    /\ cl = Asleep

Init ==
    /\ Started(<< idx(1, 2, << "B" >>, 3) >>)
    /\ exists = {_full_path(PathR)}
    /\ maptype_override = NoOverride

(***************************************************************************)
(* Spec: the application opens a file through a free handle, and reads   *)
(* and releases only the file it holds open.  SpecMisuse: it may also      *)
(* release a file no open of which is outstanding.                         *)
(***************************************************************************)
Paths == {PathA, PathB, PathR}

\* The steps of _get_tile and of the count update in open and release.
CountStep(t) ==
    \/ GetLookup(t) \/ MissLoad(t) \/ MissStore(t) \/ Create(t)
    \/ RefsTest(t) \/ HitLoad(t) \/ HitStore(t)
    \/ RefsLoad(t) \/ RefsStore(t)

Step(t) == CountStep(t) \/ ReadCall(t) \/ ReadReturn(t)

Paired(t, op, path) ==
    IF op = "open" THEN th[t].mine = NoPath ELSE th[t].mine = path

Request(t) ==
    \E op \in {"open", "read", "release"}, path \in Paths :
        /\ th[t].ops < MaxOps
        /\ Paired(t, op, path)
        /\ Begin(t, op, path, 0, ContentLen)

\* A release with no open before it.
Unmatched(t, op) == op = "release" /\ th[t].mine = NoPath

MisuseRequest(t) ==
    \E op \in {"open", "read", "release"}, path \in {PathA, PathR} :
        /\ th[t].ops < MaxOps
        /\ Paired(t, op, path) \/ Unmatched(t, op)
        /\ Begin(t, op, path, 0, ContentLen)

Next == Clean \/ \E t \in Threads : Request(t) \/ Step(t)

NextMisuse == Clean \/ \E t \in Threads : MisuseRequest(t) \/ Step(t)

Spec == Init /\ [][Next]_vars

SpecMisuse == Init /\ [][NextMisuse]_vars

(***************************************************************************)
(* SpecFail: as Spec without the cleaner, with a provider whose            *)
(* constructor may fail.                                                   *)
(***************************************************************************)
NextFail == \E t \in Threads : Request(t) \/ Step(t) \/ CreateFail(t)

SpecFail == Init /\ [][NextFail]_vars

(***************************************************************************)
(* SpecOverride: as Spec without the cleaner, on two paths that differ in  *)
(* their map type only, with and without the override B configured since   *)
(* the start, under which every key of the mapping has map type B.         *)
(***************************************************************************)
InitOverride ==
    /\ Started(<< idx(1, 2, << "B" >>, 3) >>)
    /\ exists = {_full_path(PathR)}
    /\ maptype_override \in {NoOverride, << "B" >>}

OverrideRequest(t) ==
    \E op \in {"open", "read", "release"}, path \in {PathE, PathF} :
        /\ th[t].ops < MaxOps
        /\ Paired(t, op, path)
        /\ Begin(t, op, path, 0, ContentLen)

NextOverride == \E t \in Threads : OverrideRequest(t) \/ Step(t)

SpecOverride == InitOverride /\ [][NextOverride]_vars

(***************************************************************************)
(* SpecClean: clean alone, while the application keeps the tiles of one    *)
(* of the PinPatterns open and asks for nothing.  The thread of clean is   *)
(* scheduled again and again.                                              *)
(***************************************************************************)
\* How many tiles the mapping holds at the start.
CleanSizes == { CacheWatermark - 1, CacheWatermark, CacheWatermark + BatchSize + 1 }

\* Which of them, by order of insertion, the application holds open.
PinPatterns == { {}, {1}, {2, 5}, 1..BatchSize }

InitClean ==
    \E n \in CleanSizes, pins \in PinPatterns :
        /\ tiles = [i \in 1..n |-> [key |-> FillerKey(i), h |-> i]]
        /\ handles = [i \in 1..n |->
                        [Tile(FillerKey(i)) EXCEPT !.refs = IF i \in pins THEN 1 ELSE 0]]
        /\ tile_lock = Unlocked
        /\ misses = n
        /\ hits = 0
        /\ th = [t \in Threads |-> IdleFrame]
        /\ cl = Asleep
        /\ exists = {}
        /\ maptype_override = NoOverride

NextClean == Clean

SpecClean == InitClean /\ [][NextClean]_vars /\ WF_vars(Clean)

(***************************************************************************)
(* SpecRead: the application reads the ranges of ReadRanges through two    *)
(* handles, each opened before and released after.                         *)
(***************************************************************************)
MaxSessionOps == 3      \* requests through one handle in SpecRead

\* (offset, length) of the reads of each session: the first reads the
\* content in two pieces, the second reads it whole or runs past its end.
ReadRanges(t) ==
    IF t = 1 THEN { << 0, 1 >>, << 1, ContentLen - 1 >> }
    ELSE { << 0, ContentLen >>, << 1, ContentLen >> }

ReadRequest(t) ==
    \E op \in {"open", "read", "release"}, path \in {PathA, PathB}, r \in ReadRanges(t) :
        /\ th[t].ops < MaxSessionOps
        /\ Paired(t, op, path)
        /\ op # "read" => r = CHOOSE x \in ReadRanges(t) : TRUE
        /\ Begin(t, op, path, r[1], r[2])

NextRead == \E t \in Threads : ReadRequest(t) \/ Step(t)

SpecRead == Init /\ [][NextRead]_vars

(***************************************************************************)
(* SpecFS: the first request after start-up, on any of the paths FsPaths,  *)
(* with or without real files under the root.                              *)
(***************************************************************************)
MaxTypeLen == 3         \* characters of a map type in FsPaths

\* The strings of at most n characters of the set chars.
RECURSIVE Strings(_, _)
Strings(chars, n) ==
    IF n = 0 THEN { << >> }
    ELSE LET shorter == Strings(chars, n - 1)
         IN shorter \cup { Append(w, c) : w \in shorter, c \in chars }

Dirs == { << "/" >>, << "/", "a", "/" >> }
RowStrs == { << "1" >>, << "0", "7" >> }
ColStrs == { << "2" >> }
ZoomStrs == { << "3" >>, << "1", "6" >> }
TypeStrs == Strings({"B", "Z", "L"}, MaxTypeLen) \cup { << "_" >>, << "-", "B" >> }
Endings ==
    { << ".", "d", "d", "s" >>, << "x", "d", "d", "s" >>, << "d", "d", "s" >>,
      << ".", "d", "d", "s", "x" >>, << ".", "t", "e", "r" >>, << ".", "D", "D", "S" >> }

\* Paths with empty, dot and dot-dot components, and a file of the host
\* that is not under the root.
OddPaths ==
    { << "/" >>,
      << "/", "a", "/", ".", ".", "/", "a", ".", "t", "x", "t" >>,
      << "/", ".", ".", "/", "x" >>,
      << "/", "a", "/", ".", ".", "/", ".", ".", "/", "x" >>,
      << "/", "/", "x" >> }

Outside == << "/", "x" >>

FsPaths ==
    { d \o r \o << s1 >> \o c \o << s2 >> \o m \o z \o e :
        d \in Dirs, r \in RowStrs, s1 \in {"-", "_"}, c \in ColStrs,
        s2 \in {"-", "_"}, m \in TypeStrs, z \in ZoomStrs, e \in Endings }
    \cup {PathR} \cup OddPaths

InitFS ==
    /\ Started(<< idx(1, 2, << "B" >>, 3) >>)
    /\ exists \in { {Outside}, {Outside, _full_path(PathR), _full_path(PathA)} }
    /\ maptype_override = NoOverride

\* The paths of the next request: any path for the first, none after it.
Asked(t) == IF th[t].ops = 0 THEN FsPaths ELSE {}

FsGetattr == \E path \in Asked(1) : Getattr(1, path)

FsTruncate == \E path \in Asked(1) : Truncate(1, path)

FsFlush == \E path \in Asked(1) : Flush(1, path)

FsWrite == \E path \in Asked(1) : Write(1, path)

FsOpen == \E path \in Asked(1) : Begin(1, "open", path, 0, 0)

NextFS == FsGetattr \/ FsTruncate \/ FsFlush \/ FsWrite \/ FsOpen \/ CountStep(1)

SpecFS == InitFS /\ [][NextFS]_vars

(***************************************************************************)
(* SpecFrame: two workers mix getattr and readdir on the paths of          *)
(* FramePaths with paired open, read and release on the paths of Paths,   *)
(* virtual and real.                                                       *)
(***************************************************************************)
FramePaths == {PathA, PathR, << "/" >>}

FrameGetattr(t) ==
    \E path \in FramePaths : th[t].ops < MaxOps /\ Getattr(t, path)

FrameReaddir(t) ==
    \E path \in FramePaths : th[t].ops < MaxOps /\ Readdir(t, path)

FrameRequest(t) ==
    \E op \in {"open", "read", "release"}, path \in Paths :
        /\ th[t].ops < MaxOps
        /\ Paired(t, op, path)
        /\ Begin(t, op, path, 0, ContentLen)

NextFrame ==
    \E t \in Threads :
        FrameGetattr(t) \/ FrameReaddir(t) \/ FrameRequest(t) \/ Step(t)

SpecFrame == Init /\ [][NextFrame]_vars

(***************************************************************************)
(* SpecKey: each worker opens one of KeyPaths, one open after the other.   *)
(* The names differ in their fields so that the digits and separators of   *)
(* one field could be taken for those of its neighbour.                    *)
(***************************************************************************)
MaxKeyTypeLen == 2      \* characters of a map type in KeyPaths

KeyPaths ==
    { << "/" >> \o r \o << "_" >> \o c \o << "_" >> \o m \o z \o << ".", "d", "d", "s" >> :
        r \in { << "1" >>, << "1", "2" >> }, c \in { << "2" >>, << "2", "1" >> },
        m \in Strings({"B", "_"}, MaxKeyTypeLen) \cup { << "-" >> },
        z \in { << "3" >>, << "1", "3" >> } }

\* The paths of the next request of worker t: any, for its first request
\* when no request is in progress.
KeyAsked(t) ==
    IF th[t].ops = 0 /\ \A u \in Threads : th[u].pc = "idle" THEN KeyPaths ELSE {}

KeyOpen(t) == \E path \in KeyAsked(t) : Begin(t, "open", path, 0, 0)

NextKey == \E t \in Threads : KeyOpen(t) \/ CountStep(t)

SpecKey == Init /\ [][NextKey]_vars

(***************************************************************************)
(* Properties of the tile cache under concurrent requests.                 *)
(***************************************************************************)
Live(h) == ~handles[h].closed

\* The handles of the requests that are reading at this moment.
InFlight == { th[t].tile : t \in { u \in Threads : th[u].pc = "reading" } }

\* No request is in progress and the application holds no file open.
Quiescent == \A t \in Threads : th[t].pc = "idle" /\ th[t].mine = NoPath

\* C1: concurrent _get_tile calls for one identity construct one handle: at
\* no time do two handles that were not closed exist for the same key.
C1_OneHandlePerIdentity ==
    \A h1, h2 \in DOMAIN handles :
        (handles[h1].key = handles[h2].key /\ Live(h1) /\ Live(h2)) => h1 = h2

\* C2: with every release preceded by its own open, no reference count is
\* ever negative, and once every pair has completed the count of each stored
\* handle is back at its value before the sequence, which is 0.
C2_RefsBalanced ==
    /\ \A h \in DOMAIN handles : handles[h].refs >= 0
    /\ Quiescent => \A i \in DOMAIN tiles : handles[tiles[i].h].refs = 0

\* C3: clean removes and closes only a handle whose reference count is not
\* positive at the moment of the removal.
C3_NoEvictionOfReferenced ==
    [][(cl.pc = "pop" /\ cl'.pc = "iter")
         => handles[Get(tiles, Head(cl.keys))].refs <= 0]_vars

\* C4: clean closes no handle on which a byte-range read is in flight.
C4_NoCloseDuringRead ==
    [][\A h \in InFlight : handles'[h].closed = handles[h].closed]_vars

(***************************************************************************)
(* The naming convention of virtual files, read off a file name from left  *)
(* to right: row digits, a separator, column digits, a separator, a map    *)
(* type of non-digits, zoom digits, and the four characters of the         *)
(* extension, with nothing before or after.                                *)
(***************************************************************************)
Separators == {"-", "_"}

Extension == << ".", "d", "d", "s" >>

Reserved == << "Z", "L" >>

\* The file name of a path: what follows its last slash.
FileName(path) ==
    LET s == Max({0} \cup { i \in 1..Len(path) : path[i] = "/" })
    IN SubSeq(path, s + 1, Len(path))

RECURSIVE DigitsAt(_, _)
DigitsAt(n, i) ==
    IF i <= Len(n) /\ n[i] \in Digits THEN 1 + DigitsAt(n, i + 1) ELSE 0

RECURSIVE OthersAt(_, _)
OthersAt(n, i) ==
    IF i <= Len(n) /\ n[i] \notin Digits THEN 1 + OthersAt(n, i + 1) ELSE 0

\* The fields written in the file name n, when n follows the convention.
NameFields(n) ==
    LET rn == DigitsAt(n, 1)
        c0 == rn + 2
        cn == DigitsAt(n, c0)
        m0 == c0 + cn + 1
        mn == OthersAt(n, m0)
        z0 == m0 + mn
        zn == DigitsAt(n, z0)
    IN IF /\ rn > 0 /\ rn + 1 <= Len(n) /\ n[rn + 1] \in Separators
          /\ cn > 0 /\ c0 + cn <= Len(n) /\ n[c0 + cn] \in Separators
          /\ zn > 0
          /\ SubSeq(n, z0 + zn, Len(n)) = Extension
       THEN [ok      |-> TRUE,
             row     |-> SubSeq(n, 1, rn),
             col     |-> SubSeq(n, c0, c0 + cn - 1),
             maptype |-> SubSeq(n, m0, m0 + mn - 1),
             zoom    |-> SubSeq(n, z0, z0 + zn - 1)]
       ELSE [ok |-> FALSE]

\* The path names a virtual file by the convention.
Conventional(path) ==
    LET g == NameFields(FileName(path)) IN g.ok /\ g.maptype # Reserved

\* C5: a read of a virtual path returns the slice (offset, length) of the
\* content of the path's identity, as the handle gave it; so the bytes that
\* reads of different ranges gathered through one open handle equal, position
\* by position, the bytes read through another open handle of the same path.
C5_ReadsAgree ==
    /\ \A t \in Threads :
          (th[t].op = "read" /\ th[t].pc = "idle")
          => th[t].ret = Ok(read_dds_bytes(KeyOf(th[t]), th[t].offset, th[t].length))
    /\ \A t1, t2 \in Threads : \A e1 \in th[t1].buf, e2 \in th[t2].buf :
          (e1[1] = e2[1] /\ e1[2] = e2[2]) => e1[3] = e2[3]

\* One handle has gathered the whole content of a path in two reads, while
\* the other handle, open on the same path, has read it in one.
C5_Witness ==
    /\ th[1].mine = th[2].mine /\ th[1].mine # NoPath
    /\ th[1].ops = 3 /\ th[1].pc = "idle"
    /\ Cardinality(th[1].buf) = ContentLen
    /\ th[2].op = "read" /\ th[2].pc = "idle"
    /\ th[2].offset = 0 /\ th[2].length = ContentLen
    /\ Len(th[2].ret[2]) = ContentLen
    /\ \A i \in 1..ContentLen : << th[2].path, i, th[2].ret[2][i] >> \in th[1].buf

\* C6: getattr on a path dds_re matches returns the fixed record, whatever
\* the fields of the name and whether or not the real file exists; on any
\* other path it returns what lstat says of the real file, and fails when
\* there is none.
C6_GetattrFixedRecord ==
    \A t \in Threads :
        (th[t].op = "getattr" /\ th[t].pc = "idle")
        => IF dds_re(th[t].path).ok
           THEN /\ th[t].ret[1] = "ok"
                /\ "st_size" \in DOMAIN th[t].ret[2]
                /\ th[t].ret[2].st_size = 22369744
                /\ th[t].ret[2].st_blksize = 32768
                /\ th[t].ret[2].st_nlink = 1
                /\ th[t].ret[2].st_mode = 33204
                /\ th[t].ret[2].st_atime = << 1649857250, 382081 >>
                /\ th[t].ret[2].st_ctime = << 1649857251, 726115 >>
                /\ th[t].ret[2].st_mtime = << 1649857251, 726115 >>
                /\ th[t].ret[2].st_uid = default_uid
                /\ th[t].ret[2].st_gid = default_gid
           ELSE IF _full_path(th[t].path) \in exists
                THEN th[t].ret = Ok([lstat |-> _full_path(th[t].path)])
                ELSE th[t].ret = Err("ENOENT")

\* getattr has returned the fixed record for a matching path of zoom 16
\* that has no real file.
C6_Witness ==
    \E t \in Threads :
        /\ th[t].op = "getattr" /\ th[t].pc = "idle"
        /\ dds_re(th[t].path).ok
        /\ int(dds_re(th[t].path).zoom) = 16
        /\ _full_path(th[t].path) \notin exists
        /\ th[t].ret = Ok(VirtualAttrs)

\* C7: open of a path whose file name follows the convention calls _get_tile
\* with exactly the row, column, map type and zoom written in the name.
C7_ExactFields ==
    \A t \in Threads :
        (th[t].op = "open" /\ Conventional(th[t].path))
        => LET g == NameFields(FileName(th[t].path))
           IN /\ th[t].row = int(g.row)
              /\ th[t].col = int(g.col)
              /\ th[t].maptype = g.maptype
              /\ th[t].zoom = int(g.zoom)

\* The answer r is the fixed record of a virtual file.
Synthetic(r) ==
    r[1] = "ok" /\ DOMAIN r[2] = DOMAIN VirtualAttrs /\ r[2] = VirtualAttrs

\* C8: a path is treated as virtual, here by getattr, exactly when its file
\* name follows the convention and its map type is not the reserved one.
C8_VirtualIffConventional ==
    \A t \in Threads :
        (th[t].op = "getattr" /\ th[t].pc = "idle")
        => (Synthetic(th[t].ret) <=> Conventional(th[t].path))

\* C9: truncate, write and flush of a virtual path, one that follows the
\* convention and that dds_re matches, return success and leave the mapping
\* and every handle as they were.
C9_MutationsAreNoOps ==
    [][\A t \in Threads :
          (/\ th'[t].ops = th[t].ops + 1
           /\ th'[t].op \in {"truncate", "write", "flush"}
           /\ dds_re(th'[t].path).ok /\ Conventional(th'[t].path))
          => /\ th'[t].ret[1] = "ok"
             /\ tiles' = tiles
             /\ handles' = handles]_vars

\* C11: when the constructor fails in _get_tile, the caller gets the failure,
\* the mapping and every handle are as they were, so that no entry was left
\* for the identity, and the lock is free; a _get_tile for the same identity
\* that then finds no entry goes on to construct.
C11_FailedConstructionLeavesNoEntry ==
    [][\A t \in Threads :
          /\ (th[t].pc = "create" /\ th'[t].pc = "idle")
             => /\ th'[t].ret = Err("TileError")
                /\ th'[t].mine = th[t].mine
                /\ tiles' = tiles
                /\ handles' = handles
                /\ tile_lock' = Unlocked
          /\ (th[t].pc = "get" /\ th'[t].pc # "get"
              /\ KeyOf(th[t]) \notin Keys(tiles))
             => th'[t].pc = "miss_load"]_vars

\* A construction has failed for an identity, the mapping holds no entry for
\* it, and the other worker is constructing a handle for the same identity.
C11_Witness ==
    \E t, u \in Threads :
        /\ th[t].pc = "idle" /\ th[t].ret = Err("TileError")
        /\ KeyOf(th[t]) \notin Keys(tiles)
        /\ th[u].pc = "create" /\ KeyOf(th[u]) = KeyOf(th[t])

\* The handle _get_tile has returned to worker t has the key of the parsed
\* row, column and zoom with the override for map type when one is
\* configured, and with the parsed map type when none is.
KeyAsConfigured(t) ==
    handles[th[t].tile].key =
        idx(th[t].row, th[t].col,
            IF maptype_override = NoOverride THEN th[t].maptype ELSE maptype_override,
            th[t].zoom)

\* C12: _get_tile builds the key from the override when one is configured
\* and from the parsed map type otherwise, so that under an override two
\* paths that differ in their map type only get the same entry and the same
\* handle.
C12_OverrideSharesHandle ==
    \A t, u \in Threads :
        (th[t].tile # None /\ th[u].tile # None)
        => /\ KeyAsConfigured(t)
           /\ (/\ maptype_override # NoOverride
               /\ th[t].row = th[u].row /\ th[t].col = th[u].col
               /\ th[t].zoom = th[u].zoom
               /\ Live(th[t].tile) /\ Live(th[u].tile))
              => th[t].tile = th[u].tile

\* The full path is the root or lies under it.
Confined(full) ==
    \/ full = root
    \/ Len(full) > Len(root) /\ SubSeq(full, 1, Len(root) + 1) = root \o << "/" >>

\* The request was refused without a call of the host.
Refused(r) == r = Err("EACCES") \/ r = Err("EINVAL")

\* C13: for a path that is not virtual, the full path handed to the host is
\* the root or a descendant of it, or else the request is refused.
C13_FullPathConfined ==
    \A t \in Threads :
        (/\ th[t].pc = "idle"
         /\ th[t].op \in {"getattr", "truncate", "open"}
         /\ ~dds_re(th[t].path).ok)
        => Confined(_full_path(th[t].path)) \/ Refused(th[t].ret)

\* C14: every cycle of clean reaches its sleep: clean is asleep again and
\* again, also while the mapping holds 90 handles or more, memory stays above
\* the limit and the handles it examines are all referenced.
C14_CycleReachesSleep == []<>(cl.pc = "sleep")

\* A pass of clean ends: the loop over the batch is over.
PassEnds == cl.pc = "iter" /\ cl.keys = << >> /\ cl'.pc = "test"

\* The keys the pass that ends has removed.
PassRemoved == { k \in { cl.batch[i] : i \in DOMAIN cl.batch } : k \notin Keys(tiles) }

\* The keys of the mapping in insertion order when the pass began: the
\* batch, then the keys behind it, which the pass has left in place.
PassStart ==
    LET kept == Len(cl.batch) - Cardinality(PassRemoved)
    IN cl.batch \o [i \in 1..(Len(tiles) - kept) |-> tiles[kept + i].key]

\* Key k was removed by the pass, or its handle is not referenced.
Idle(k) == k \in PassRemoved \/ handles[Get(tiles, k)].refs <= 0

\* The oldest BatchSize keys, or all if fewer, among those of unreferenced
\* handles when the pass began.
OldestIdle ==
    { PassStart[i] : i \in { j \in DOMAIN PassStart :
        /\ Idle(PassStart[j])
        /\ Cardinality({ m \in 1..(j - 1) : Idle(PassStart[m]) }) < BatchSize } }

\* C15: a pass of clean removes exactly the min(20, k) oldest-inserted of the
\* k handles that are not referenced, and every handle it removed is closed.
C15_PassRemovesOldestIdle ==
    [][PassEnds =>
         /\ PassRemoved = OldestIdle
         /\ \A h \in DOMAIN handles :
               handles[h].key \in PassRemoved => handles[h].closed]_vars

\* The workers through which the application holds a virtual file of key k
\* open, no request being in progress.
Holders(k) ==
    { t \in Threads : th[t].mine # NoPath /\ th[t].row # 0 /\ KeyOf(th[t]) = k }

\* C16: the count updates are serialized by the lock, so that once N opens
\* of one identity have returned and none was released, its handle has
\* reference count N.
C16_CountIsNumberOfOpens ==
    (\A t \in Threads : th[t].pc = "idle")
    => \A i \in DOMAIN tiles :
          handles[tiles[i].h].refs = Cardinality(Holders(tiles[i].key))

\* A handle leaves the mapping or is closed in this step.
Removal ==
    \/ Len(tiles') < Len(tiles)
    \/ \E h \in DOMAIN handles : handles'[h].closed /\ ~handles[h].closed

\* The mapping holds 90 handles or more and the sample of resident memory,
\* in KiB, is above 2 GiB.
Pressure(n, sample) == n >= 90 /\ sample > 2 * 1024 * 1024

\* C17: clean removes a handle only in a pass at whose start the mapping
\* held at least 90 handles and the sampled memory was above 2 GiB; when
\* clean finds either condition false it goes to sleep, and removes and
\* closes nothing.
C17_RemovalOnlyUnderPressure ==
    [][/\ Removal
          => /\ cl.pc = "pop" /\ tile_lock = "clean"
             /\ Pressure(Len(tiles) + Cardinality(PassRemoved), cl.cur_mem)
       /\ (cl.pc = "test" /\ cl' # cl /\ ~Pressure(Len(tiles), cl.cur_mem))
          => cl'.pc = "sleep" /\ tiles' = tiles /\ handles' = handles]_vars

\* clean is in a pass in which it has removed and closed a handle, and the
\* mapping is below 90 handles by now.
C17_Witness ==
    /\ cl.pc = "iter" /\ PassRemoved # {}
    /\ \E h \in DOMAIN handles : handles[h].closed
    /\ Len(tiles) < 90

\* C18: no worker holds tile_lock while it executes read_dds_bytes.
C18_NoLockDuringRead ==
    \A t \in Threads : th[t].pc = "reading" => tile_lock # Holder(t)

\* A read is in flight while clean holds the lock and goes through its batch.
C18_Witness ==
    \E t \in Threads :
        /\ th[t].pc = "reading"
        /\ tile_lock = "clean" /\ cl.pc = "iter"

\* C19: a _get_tile call that found no entry adds one to misses and leaves
\* hits, one that found an entry with reference count 0 or below adds one to
\* hits and leaves misses, and nothing else changes the counters, so that
\* the counters are the numbers of such calls.
C19_CountersCountCalls ==
    [][/\ \A t \in Threads :
            /\ (th[t].pc = "miss_store" /\ th'[t].pc # "miss_store")
               => misses' = misses + 1 /\ hits' = hits
            /\ (th[t].pc = "hit_store" /\ th'[t].pc # "hit_store")
               => hits' = hits + 1 /\ misses' = misses
       /\ (misses' # misses \/ hits' # hits)
          => \E t \in Threads :
                /\ th[t].pc \in {"miss_store", "hit_store"}
                /\ th'[t].pc # th[t].pc]_vars

\* Worker t has parsed the name of a virtual file.
HasIdentity(t) == th[t].op = "open" /\ th[t].zoom # 0

\* The identities of workers t and u are equal field by field.
SameIdentity(t, u) ==
    /\ th[t].row = th[u].row /\ th[t].col = th[u].col
    /\ th[t].maptype = th[u].maptype /\ th[t].zoom = th[u].zoom

\* C20: two identities get the same key only if their rows, columns, map
\* types and zooms are equal; so an open never gets the handle that the
\* mapping keeps for another identity.
C20_KeyInjective ==
    \A t, u \in Threads :
        (HasIdentity(t) /\ HasIdentity(u))
        => /\ KeyOf(th[t]) = KeyOf(th[u]) => SameIdentity(t, u)
           /\ (th[t].tile # None /\ th[t].tile = th[u].tile) => SameIdentity(t, u)

\* Both workers have opened names that differ in the map type only, one of
\* them with separators in it, and the mapping holds an entry for each.
C20_Witness ==
    \E t, u \in Threads :
        /\ th[t].pc = "idle" /\ th[u].pc = "idle"
        /\ HasIdentity(t) /\ HasIdentity(u)
        /\ th[t].maptype = << "_", "_" >> /\ th[u].maptype = << "_" >>
        /\ th[t].row = th[u].row /\ th[t].col = th[u].col /\ th[t].zoom = th[u].zoom
        /\ Get(tiles, KeyOf(th[t])) # Get(tiles, KeyOf(th[u]))

\* C21: while a file of a virtual path is open (its open has returned and
\* its release has not been called), the handle on which the open raised the
\* count is the entry of the mapping under its key and has not been closed.
C21_OpenCountedOnStoredHandle ==
    \A t \in Threads :
        th[t].held # None
        => /\ Get(tiles, handles[th[t].held].key) = th[t].held
           /\ Live(th[t].held)

\* C22: every handle the constructor has returned is the entry of the
\* mapping under its key or has been closed by clean; none leaves the
\* mapping without being closed.
C22_EveryHandleStoredOrClosed ==
    \A h \in DOMAIN handles :
        Get(tiles, handles[h].key) = h \/ handles[h].closed

\* The request of frame f does not concern a virtual file's content:
\* getattr, readdir, or open, read or release on a path dds_re rejects.
Bypasses(f) ==
    \/ f.op \in {"getattr", "readdir"}
    \/ f.op \in {"open", "read", "release"} /\ ~dds_re(f.path).ok

\* C23: getattr and readdir on any path, and open, read and release on a
\* path that is not virtual, leave the mapping, every reference count and
\* the hit and miss counters as they were and construct no handle.
C23_OnlyVirtualFilesReachCache ==
    [][\A t \in Threads :
          (th'[t] # th[t] /\ Bypasses(th'[t]))
          => UNCHANGED << tiles, handles, misses, hits >>]_vars

\* One worker has had the fixed record from getattr on a virtual path and
\* the other holds a real file open, by the descriptor of the host.
C23_Witness ==
    \E t, u \in Threads :
        /\ th[t].pc = "idle" /\ th[t].op = "getattr" /\ th[t].path = PathA
        /\ th[t].ret = Ok(VirtualAttrs)
        /\ th[u].pc = "idle" /\ th[u].op = "open" /\ th[u].mine = PathR
        /\ th[u].ret = Ok("fd")

\* C10: a release with no open before it, on a handle whose count is 0 or
\* below, leaves that count at 0 and leaves every other handle and every
\* entry of the mapping as they were.
C10_UnmatchedReleaseClamped ==
    [][\A t \in Threads :
          (/\ th[t].pc = "refs_store" /\ th'[t].pc = "idle"
           /\ th[t].op = "release" /\ th[t].mine = NoPath
           /\ handles[th[t].tile].refs <= 0)
          => /\ handles'[th[t].tile].refs = 0
             /\ \A h \in DOMAIN handles \ {th[t].tile} : handles'[h] = handles[h]
             /\ tiles' = tiles]_vars
====
